---- MODULE Spec2Model ----
(***************************************************************************)
(* A model of diskimage_builder/graph/digraph.py: the Digraph container    *)
(* (named nodes, weighted edges kept in insert-sorted lists), its bulk     *)
(* constructor create_from_dict, its export as_dict, and the depth-first   *)
(* topological_sort.                                                       *)
(*                                                                         *)
(* Node objects are the integers 1..Len(name); object identity is integer  *)
(* equality, and name[o] is the object's immutable name.  A Python dict is *)
(* a sequence of <<key, value>> pairs with distinct keys, in insertion     *)
(* order.  Lists are sequences.  Python's 0-based index i is i+1 here.     *)
(***************************************************************************)
EXTENDS Integers, Sequences, FiniteSets, TLC

\* Node names the callers use, in the order in which they take new ones.
NameSeq == <<"A", "B", "C">>
Names == {NameSeq[i] : i \in 1..Len(NameSeq)}
\* Digraph instances; Spec drives the first one only, SpecShared both.
Graphs == {1, 2}
\* At most this many Node objects are ever constructed.
MaxObjs == 3
\* At most this many edges are ever created.
MaxEdges == 3
\* At most this many edges are created where Node objects may be shared
\* between graphs (SpecShared).
MaxSharedEdges == 2
\* Edge weights are 0..MaxWeight.
MaxWeight == 1
\* topological_sort is called with room for 1..MaxDepth nested calls of
\* visit before the interpreter's recursion limit is reached (the limit and
\* the caller's own depth decide how many; scaled to the graphs explored).
MaxDepth == 3

\* find's "not available" result.
None == 0

VARIABLES
    name,         \* name[o]: Node.__name of object o
    outgoing,     \* outgoing[o]: Node.__outgoing, a list of Edge
    incoming,     \* incoming[o]: Node.__incoming, a list of Edge
    named_nodes,  \* named_nodes[g]: Digraph._named_nodes of graph g
    pc,           \* "idle", or the procedure that is running
    cfd,          \* the frame of create_from_dict (NoCfd unless it was the last call)
    ts,           \* the frame of topological_sort (NoTs unless it was the last call)
    result        \* outcome of the last call: "running", "ok" or the exception

vars == <<name, outgoing, incoming, named_nodes, pc, cfd, ts, result>>

Objs == 1..Len(name)
Weights == 0..MaxWeight

(* The code compares names for equality only (dict keys, line 135), so a   *)
(* run is the same up to a renaming of the names.  The callers therefore   *)
(* pick a name already in use or the first name of NameSeq not yet in use. *)
UsedNames == {name[o] : o \in Objs}

FirstUnused(used) ==
    IF \E i \in 1..Len(NameSeq) : NameSeq[i] \notin used
    THEN {NameSeq[CHOOSE i \in 1..Len(NameSeq) :
                     /\ NameSeq[i] \notin used
                     /\ \A j \in 1..(i - 1) : NameSeq[j] \in used]}
    ELSE {}

\* The names of the sequence s, read left to right, are each in use or the
\* first unused one at that point.
RECURSIVE InFirstUseOrder(_, _)
InFirstUseOrder(s, used) ==
    IF Len(s) = 0 THEN TRUE
    ELSE /\ s[1] \in used \cup FirstUnused(used)
         /\ InFirstUseOrder(SubSeq(s, 2, Len(s)), used \cup {s[1]})

-----------------------------------------------------------------------------
(* Python dict, as an insertion-ordered sequence of <<key, value>>.        *)

DictIndex(d, k) ==
    IF \E i \in 1..Len(d) : d[i][1] = k
    THEN CHOOSE i \in 1..Len(d) : d[i][1] = k
    ELSE 0

DictHas(d, k) == DictIndex(d, k) # 0

DictGet(d, k) == d[DictIndex(d, k)][2]

\* d[k] = v
DictSet(d, k, v) ==
    IF DictHas(d, k)
    THEN [d EXCEPT ![DictIndex(d, k)] = <<k, v>>]
    ELSE Append(d, <<k, v>>)

DictKeys(d) == {d[i][1] : i \in 1..Len(d)}

\* d.values(), in iteration order
DictValues(d) == [i \in 1..Len(d) |-> d[i][2]]

-----------------------------------------------------------------------------
(* Digraph.Edge and the insert-sorted edge lists of Digraph.Node.          *)

Edge(node, weight) == [node |-> node, weight |-> weight]

\* A comparison that also holds for equal weights.
EdgeLe(e1, e2) == e1.weight <= e2.weight

\* Edge.__lt__
EdgeLt(e1, e2) == e1.weight < e2.weight

\* The variant of the search that stops left of equal elements.
RECURSIVE bisect_left(_, _, _, _)
bisect_left(a, x, lo, hi) ==
    IF lo < hi
    THEN LET mid == (lo + hi) \div 2
         IN  IF EdgeLt(a[mid + 1], x)
             THEN bisect_left(a, x, mid + 1, hi)
             ELSE bisect_left(a, x, lo, mid)
    ELSE lo

\* bisect.insort is insort_right: binary search with x < a[mid] only.
RECURSIVE bisect_right(_, _, _, _)
bisect_right(a, x, lo, hi) ==
    IF lo < hi
    THEN LET mid == (lo + hi) \div 2
         IN  IF EdgeLt(x, a[mid + 1])
             THEN bisect_right(a, x, lo, mid)
             ELSE bisect_right(a, x, mid + 1, hi)
    ELSE lo

\* list.insert(i, x)
ListInsert(a, i, x) == SubSeq(a, 1, i) \o <<x>> \o SubSeq(a, i + 1, Len(a))

insort(a, x) == ListInsert(a, bisect_right(a, x, 0, Len(a)), x)

\* Node.add_outgoing / Node.add_incoming: the list after the call
add_edge(list, node, weight) == insort(list, Edge(node, weight))

\* Node.get_iter_outgoing: the list the iterator runs over
get_iter_outgoing(o) == [i \in 1..Len(outgoing[o]) |-> outgoing[o][i].node]

\* A root test that ignores the incoming list.
has_incoming_never(o) == FALSE

\* Node.has_incoming (the list itself, used for its truth value)
has_incoming(o) == incoming[o] # <<>>

\* Node.get_outgoing_as_named_list
get_outgoing_as_named_list(o) ==
    [i \in 1..Len(outgoing[o]) |-> name[outgoing[o][i].node]]

TotalEdges ==
    LET RECURSIVE Sum(_)
        Sum(n) == IF n = 0 THEN 0 ELSE Len(outgoing[n]) + Sum(n - 1)
    IN  Sum(Len(name))

-----------------------------------------------------------------------------
(* Digraph: lookup, add_node, create_edge, as_dict.                        *)

\* A lookup that falls back to the first registered node.
find_default(g, n) ==
    IF DictHas(named_nodes[g], n) THEN DictGet(named_nodes[g], n)
    ELSE IF named_nodes[g] # <<>> THEN named_nodes[g][1][2]
    ELSE None

\* Digraph.find
find(g, n) ==
    IF ~DictHas(named_nodes[g], n) THEN None ELSE DictGet(named_nodes[g], n)

\* A duplicate test that never fires.
NameRegisteredNever(g, n) == FALSE

\* add_node's loop: some registered node has the name n
NameRegistered(g, n) ==
    \E i \in 1..Len(named_nodes[g]) : name[DictValues(named_nodes[g])[i]] = n

\* A reference test by name only.
ValidRefByName(g, o) == o # None /\ DictHas(named_nodes[g], name[o])

\* create_edge's four assertions on one argument (None is no Node)
ValidRef(g, o) ==
    /\ o # None
    /\ DictHas(named_nodes[g], name[o])
    /\ o = DictGet(named_nodes[g], name[o])

\* A check that looks at the source node only.
EdgeArgsValidFirst(g, a, b) == ValidRef(g, a)

\* create_edge's assertions on both arguments
EdgeArgsValid(g, a, b) == ValidRef(g, a) /\ ValidRef(g, b)

\* Digraph.as_dict
RECURSIVE AsDictLoop(_, _, _)
AsDictLoop(vals, i, rval) ==
    IF i > Len(vals) THEN rval
    ELSE AsDictLoop(vals, i + 1,
                    DictSet(rval, name[vals[i]], get_outgoing_as_named_list(vals[i])))

as_dict(g) == AsDictLoop(DictValues(named_nodes[g]), 1, <<>>)

-----------------------------------------------------------------------------
(* Frames of the two multi-step procedures.                                *)

NoCfd == [g |-> 0, m |-> <<>>, i |-> 0, j |-> 0, created |-> 0, startEmpty |-> FALSE]
NoTs == [g |-> 0, depth |-> 0, k |-> 0, stack |-> <<>>, visited |-> <<>>, tsort |-> <<>>]

Init ==
    /\ name = <<>>
    /\ outgoing = <<>>
    /\ incoming = <<>>
    /\ named_nodes = [g \in Graphs |-> <<>>]
    /\ pc = "idle"
    /\ cfd = NoCfd
    /\ ts = NoTs
    /\ result = "ok"

\* Node.__init__ (called by the user of the graph)
NewNode(n) ==
    /\ pc = "idle"
    /\ Len(name) < MaxObjs
    /\ name' = Append(name, n)
    /\ outgoing' = Append(outgoing, <<>>)
    /\ incoming' = Append(incoming, <<>>)
    /\ result' = "ok"
    /\ cfd' = NoCfd
    /\ ts' = NoTs
    /\ UNCHANGED <<named_nodes, pc>>

\* Digraph.add_node
AddNode(g, anode) ==
    /\ pc = "idle"
    /\ IF NameRegistered(g, name[anode])
       THEN /\ result' = "RuntimeError_exists"
            /\ UNCHANGED named_nodes
       ELSE /\ named_nodes' = [named_nodes EXCEPT ![g] = DictSet(@, name[anode], anode)]
            /\ result' = "ok"
    /\ cfd' = NoCfd
    /\ ts' = NoTs
    /\ UNCHANGED <<name, outgoing, incoming, pc>>

\* The two list insertions of create_edge
LinkNodes(anode, bnode, weight) ==
    /\ outgoing' = [outgoing EXCEPT ![anode] = add_edge(@, bnode, weight)]
    /\ incoming' = [incoming EXCEPT ![bnode] = add_edge(@, anode, weight)]

\* Digraph.create_edge
CreateEdge(g, anode, bnode, weight) ==
    /\ pc = "idle"
    /\ IF EdgeArgsValid(g, anode, bnode)
       THEN /\ LinkNodes(anode, bnode, weight)
            /\ result' = "ok"
       ELSE /\ result' = "AssertionError"
            /\ UNCHANGED <<outgoing, incoming>>
    /\ cfd' = NoCfd
    /\ ts' = NoTs
    /\ UNCHANGED <<name, named_nodes, pc>>

-----------------------------------------------------------------------------
(* Digraph.create_from_dict, one add_node or create_edge call per step.    *)
(* The mapping init_dgraph is a dict: a sequence of <<name, outs>> pairs   *)
(* with distinct names, iterated in the same order by both loops.          *)

SeqsUpTo(S, n) == UNION {[1..k -> S] : k \in 0..n}

Injective(s) == \A i, j \in 1..Len(s) : s[i] = s[j] => i = j

RECURSIVE SumLen(_, _)
SumLen(ls, n) == IF n = 0 THEN 0 ELSE Len(ls[n]) + SumLen(ls, n - 1)

RECURSIVE Concat(_, _)
Concat(ls, n) == IF n = 0 THEN <<>> ELSE Concat(ls, n - 1) \o ls[n]

\* The dict with keys ks (distinct) and values outs, in this order
Mapping(ks, outs) == [i \in 1..Len(ks) |-> <<ks[i], outs[i]>>]

\* The first loop ends after its first iteration.
CfdNodesDoneEarly(c) == c.i > Len(c.m) \/ c.i > 1

\* The first loop (lines 111-115) has run over every key
CfdNodesDone(c) == c.i > Len(c.m)

CreateFromDictCall(g, m) ==
    /\ pc = "idle"
    /\ pc' = "cfd_nodes"
    /\ cfd' = [g |-> g, m |-> m, i |-> 1, j |-> 1, created |-> 0,
               startEmpty |-> named_nodes[g] = <<>>]
    /\ ts' = NoTs
    /\ result' = "running"
    /\ UNCHANGED <<name, outgoing, incoming, named_nodes>>

\* First run: named_node = node_gen_func(node_name); self.add_node(named_node)
CfdAddNode ==
    /\ pc = "cfd_nodes"
    /\ ~CfdNodesDone(cfd)
    /\ LET n == cfd.m[cfd.i][1]
           named_node == Len(name) + 1
       IN  IF NameRegistered(cfd.g, n)
           THEN /\ pc' = "idle"
                /\ result' = "RuntimeError_exists"
                /\ UNCHANGED <<name, outgoing, incoming, named_nodes, cfd>>
           ELSE /\ name' = Append(name, n)
                /\ outgoing' = Append(outgoing, <<>>)
                /\ incoming' = Append(incoming, <<>>)
                /\ named_nodes' = [named_nodes EXCEPT ![cfd.g] = DictSet(@, n, named_node)]
                /\ cfd' = [cfd EXCEPT !.i = @ + 1]
                /\ UNCHANGED <<pc, result>>
    /\ UNCHANGED ts

\* The first loop is over: the second run starts
CfdStartEdges ==
    /\ pc = "cfd_nodes"
    /\ CfdNodesDone(cfd)
    /\ pc' = "cfd_edges"
    /\ cfd' = [cfd EXCEPT !.i = 1, !.j = 1]
    /\ UNCHANGED <<name, outgoing, incoming, named_nodes, ts, result>>

\* Second run, one target: find, raise or create_edge(node_from, node_to)
CfdEdge ==
    /\ pc = "cfd_edges"
    /\ cfd.i <= Len(cfd.m)
    /\ cfd.j <= Len(cfd.m[cfd.i][2])
    /\ LET node_from == find(cfd.g, cfd.m[cfd.i][1])
           node_to == find(cfd.g, cfd.m[cfd.i][2][cfd.j])
       IN  IF node_to = None
           THEN /\ pc' = "idle"
                /\ result' = "RuntimeError_unspecified"
                /\ UNCHANGED <<outgoing, incoming, cfd>>
           ELSE IF EdgeArgsValid(cfd.g, node_from, node_to)
           THEN /\ LinkNodes(node_from, node_to, 0)
                /\ cfd' = [cfd EXCEPT !.j = @ + 1, !.created = @ + 1]
                /\ UNCHANGED <<pc, result>>
           ELSE /\ pc' = "idle"
                /\ result' = "AssertionError"
                /\ UNCHANGED <<outgoing, incoming, cfd>>
    /\ UNCHANGED <<name, named_nodes, ts>>

\* Second run: the targets of one key are done, on to the next key
CfdNextKey ==
    /\ pc = "cfd_edges"
    /\ cfd.i <= Len(cfd.m)
    /\ cfd.j > Len(cfd.m[cfd.i][2])
    /\ cfd' = [cfd EXCEPT !.i = @ + 1, !.j = 1]
    /\ UNCHANGED <<name, outgoing, incoming, named_nodes, pc, ts, result>>

\* Both loops are over: create_from_dict returns
CfdReturn ==
    /\ pc = "cfd_edges"
    /\ cfd.i > Len(cfd.m)
    /\ pc' = "idle"
    /\ result' = "ok"
    /\ UNCHANGED <<name, outgoing, incoming, named_nodes, cfd, ts>>

-----------------------------------------------------------------------------
(* Digraph.topological_sort, one loop iteration or one call of visit per   *)
(* step.  ts.stack holds the active calls of visit, innermost last, each   *)
(* with the position of its iterator over the outgoing nodes.              *)

\* The finished node is appended.
TsortAppend(tsort, node) == Append(tsort, node)

\* tsort.insert(0, node)
TsortInsert(tsort, node) == ListInsert(tsort, 0, node)

InList(x, list) == \E i \in 1..Len(list) : list[i] = x

\* A test that treats every node as new.
IsNewAlways(node, visited) == TRUE

\* node not in visited
IsNew(node, visited) == ~InList(node, visited)

\* visit(node) called from a state with frame t: it returns at once, or
\* marks the node and starts its loop, or exceeds the call depth.
VisitCall(t, node) ==
    IF ~IsNew(node, t.visited)
    THEN /\ ts' = t
         /\ UNCHANGED <<pc, result>>
    ELSE IF Len(t.stack) >= t.depth
    THEN /\ ts' = t
         /\ pc' = "idle"
         /\ result' = "RecursionError"
    ELSE /\ ts' = [t EXCEPT !.visited = Append(@, node),
                            !.stack = Append(@, [node |-> node, idx |-> 1])]
         /\ UNCHANGED <<pc, result>>

TopologicalSortCall(g, depth) ==
    /\ pc = "idle"
    /\ pc' = "tsort"
    /\ ts' = [g |-> g, depth |-> depth, k |-> 1, stack |-> <<>>, visited |-> <<>>,
              tsort |-> <<>>]
    /\ cfd' = NoCfd
    /\ result' = "running"
    /\ UNCHANGED <<name, outgoing, incoming, named_nodes>>

\* The 'main' loop: skip a node with incoming edges, visit the others
TsortScan ==
    /\ pc = "tsort"
    /\ ts.stack = <<>>
    /\ ts.k <= Len(named_nodes[ts.g])
    /\ LET node == DictValues(named_nodes[ts.g])[ts.k]
           t == [ts EXCEPT !.k = @ + 1]
       IN  IF has_incoming(node)
           THEN /\ ts' = t
                /\ UNCHANGED <<pc, result>>
           ELSE VisitCall(t, node)
    /\ UNCHANGED <<name, outgoing, incoming, named_nodes, cfd>>

\* The loop of the innermost visit: the next outgoing node is visited
TsortVisitNext ==
    /\ pc = "tsort"
    /\ ts.stack # <<>>
    /\ LET top == ts.stack[Len(ts.stack)]
           outs == get_iter_outgoing(top.node)
       IN  /\ top.idx <= Len(outs)
           /\ VisitCall([ts EXCEPT !.stack[Len(ts.stack)].idx = @ + 1], outs[top.idx])
    /\ UNCHANGED <<name, outgoing, incoming, named_nodes, cfd>>

\* The loop of the innermost visit is over: the node goes to the front
TsortVisitDone ==
    /\ pc = "tsort"
    /\ ts.stack # <<>>
    /\ LET top == ts.stack[Len(ts.stack)]
       IN  /\ top.idx > Len(get_iter_outgoing(top.node))
           /\ ts' = [ts EXCEPT !.tsort = TsortInsert(@, top.node),
                               !.stack = SubSeq(@, 1, Len(@) - 1)]
    /\ UNCHANGED <<name, outgoing, incoming, named_nodes, pc, cfd, result>>

\* return tsort
TsortReturn ==
    /\ pc = "tsort"
    /\ ts.stack = <<>>
    /\ ts.k > Len(named_nodes[ts.g])
    /\ pc' = "idle"
    /\ result' = "ok"
    /\ UNCHANGED <<name, outgoing, incoming, named_nodes, cfd, ts>>

CfdStep == CfdAddNode \/ CfdStartEdges \/ CfdEdge \/ CfdNextKey \/ CfdReturn

TsortStep == TsortScan \/ TsortVisitNext \/ TsortVisitDone \/ TsortReturn

\* The calls a user of the graphs GS can make while fewer than ne edges
\* exist
Calls(GS, ne) ==
    /\ pc = "idle"
    /\ \/ \E n \in UsedNames \cup FirstUnused(UsedNames) : NewNode(n)
       \/ \E g \in GS, o \in Objs : AddNode(g, o)
       \/ /\ TotalEdges < ne
          /\ \E g \in GS, a \in Objs, b \in Objs, w \in Weights : CreateEdge(g, a, b, w)
       \/ \E g \in GS :
             \E ks \in {q \in SeqsUpTo(Names, MaxObjs - Len(name)) : Injective(q)} :
                 \E outs \in [1..Len(ks) -> SeqsUpTo(Names, ne - TotalEdges)] :
                     /\ SumLen(outs, Len(outs)) <= ne - TotalEdges
                     /\ InFirstUseOrder(ks \o Concat(outs, Len(outs)), UsedNames)
                     /\ CreateFromDictCall(g, Mapping(ks, outs))

\* One graph, all operations
Next ==
    \/ Calls({1}, MaxEdges)
    \/ CfdStep
    \/ \E depth \in 1..MaxDepth : TopologicalSortCall(1, depth)
    \/ TsortStep

Spec == Init /\ [][Next]_vars

\* topological_sort is a synchronous call: once started it runs on
FairSpec == Spec /\ WF_vars(TsortStep)

\* Several graphs, whose users may share Node objects; construction only
NextShared ==
    \/ Calls(Graphs, MaxSharedEdges)
    \/ CfdStep

SpecShared == Init /\ [][NextShared]_vars

-----------------------------------------------------------------------------
(* Graph notions the properties are stated in.                             *)

\* The node objects registered in graph g
Registered(g) == {named_nodes[g][i][2] : i \in 1..Len(named_nodes[g])}

\* o is stored in graph g under its own name
IsStored(g, o) == \E i \in 1..Len(named_nodes[g]) : named_nodes[g][i] = <<name[o], o>>

\* The nodes o has an edge to
Succ(o) == {outgoing[o][i].node : i \in 1..Len(outgoing[o])}

\* The nodes reachable from S by zero or more outgoing edges
RECURSIVE Reach(_)
Reach(S) ==
    LET T == S \cup UNION {Succ(o) : o \in S}
    IN  IF T = S THEN S ELSE Reach(T)

Acyclic(g) == \A o \in Registered(g) : o \notin Reach(Succ(o))

\* The registered nodes without incoming edge
Roots(g) == {o \in Registered(g) : Len(incoming[o]) = 0}

Positions(list, x) == {i \in 1..Len(list) : list[i] = x}

NoDuplicates(list) == \A i, j \in 1..Len(list) : list[i] = list[j] => i = j

\* The number of nodes on a longest simple path from o that avoids seen
RECURSIVE LongestFrom(_, _)
LongestFrom(o, seen) ==
    LET next == Succ(o) \ (seen \cup {o})
        lens == {LongestFrom(b, seen \cup {o}) : b \in next}
    IN  IF next = {} THEN 1
        ELSE 1 + CHOOSE n \in lens : \A k \in lens : k <= n

\* topological_sort was the last call, on graph g, and has ended
SortEnded == pc = "idle" /\ ts.g # 0

SortReturned == SortEnded /\ result = "ok"

-----------------------------------------------------------------------------
\* C1: on an acyclic graph, the list topological_sort returns holds every
\* registered node exactly once, and for every edge a -> b the node a is at
\* a strictly smaller index than b.
C1_TopologicalOrder ==
    (SortReturned /\ Acyclic(ts.g)) =>
        /\ \A o \in Registered(ts.g) : Cardinality(Positions(ts.tsort, o)) = 1
        /\ \A a \in Registered(ts.g) : \A b \in Succ(a) :
              \A i \in Positions(ts.tsort, a), j \in Positions(ts.tsort, b) : i < j

\* An acyclic graph of three nodes and three edges, one node with two
\* successors, has been sorted.
C1_Witness ==
    /\ SortReturned
    /\ Acyclic(ts.g)
    /\ Len(ts.tsort) = 3
    /\ TotalEdges = 3
    /\ \E o \in Registered(ts.g) : Cardinality(Succ(o)) = 2

\* C2: cyclic or not, the returned list holds exactly the registered nodes
\* reachable from a registered node without incoming edge, each once; with
\* no such node the list is empty.
C2_ReachableFromRoots ==
    SortReturned =>
        /\ {ts.tsort[i] : i \in 1..Len(ts.tsort)} = Reach(Roots(ts.g))
        /\ NoDuplicates(ts.tsort)
        /\ (Roots(ts.g) = {} => ts.tsort = <<>>)

\* A graph with nodes, all of them with an incoming edge, was sorted to the
\* empty list.
C2_Witness ==
    /\ SortReturned
    /\ Registered(ts.g) # {}
    /\ Roots(ts.g) = {}
    /\ ts.tsort = <<>>

\* C3, as stated: topological_sort ends by returning a list, never by an
\* error.
C3_NeverRaises == SortEnded => result = "ok"

\* What is left to do of a running topological_sort: the nodes still to
\* scan, the iterations still to run in the active calls of visit (and
\* their returns), and the loops of the nodes not yet visited.
FrameWork(f) == Len(outgoing[f.node]) + 2 - f.idx

RECURSIVE StackWork(_)
StackWork(n) == IF n = 0 THEN 0 ELSE FrameWork(ts.stack[n]) + StackWork(n - 1)

RECURSIVE UnvisitedWork(_)
UnvisitedWork(n) ==
    IF n = 0 THEN 0
    ELSE (IF InList(n, ts.visited) THEN 0 ELSE Len(outgoing[n]) + 2)
         + UnvisitedWork(n - 1)

SortWork ==
    IF pc # "tsort" THEN 0
    ELSE 1 + (Len(named_nodes[ts.g]) + 1 - ts.k)
           + StackWork(Len(ts.stack))
           + UnvisitedWork(Len(name))

\* C3, amended, the part about states: no node is marked visited twice (so
\* its outgoing list is expanded at most once), the active calls of visit
\* never exceed the available depth, a running sort can always take a
\* step, and the sort ends with a list unless some simple path from a node
\* without incoming edge holds more nodes than calls of visit can nest.
C3_SortState ==
    /\ NoDuplicates(ts.visited)
    /\ Len(ts.stack) <= ts.depth
    /\ pc = "tsort" => ENABLED TsortStep
    /\ SortEnded =>
          /\ result \in {"ok", "RecursionError"}
          /\ result = "RecursionError" =>
                \E o \in Roots(ts.g) : LongestFrom(o, {}) > ts.depth

\* C3, amended: topological_sort terminates on every graph, cyclic or not:
\* each of its steps reduces the work left, it is never stuck, and under
\* FairSpec it ends; it returns a list unless the depth of the nested
\* calls of visit exceeds what the interpreter allows (RecursionError).
C3_TerminatesOrDepth ==
    /\ []C3_SortState
    /\ [][pc = "tsort" => SortWork' < SortWork]_vars
    /\ (pc = "tsort") ~> (pc = "idle")

\* A graph with a cycle (reached from a node without incoming edge) has
\* been sorted to a list.
C3_Witness ==
    /\ SortReturned
    /\ ~Acyclic(ts.g)
    /\ Len(ts.tsort) = 3

-----------------------------------------------------------------------------
\* The state of the graphs: names, edge lists, registrations
graph == <<name, outgoing, incoming, named_nodes>>

\* Some node registered in g (o itself or another object) has o's name
SameNameRegistered(g, o) == \E r \in Registered(g) : name[r] = name[o]

\* C4: add_node of a node whose name a registered node (the same object or
\* another) already has fails with the duplicate-node error and changes
\* nothing: the registrations, so what find returns, and every edge list
\* are as before.  So no two registered nodes share a name, and each is
\* stored under its own name.
C4_DuplicateRejected ==
    /\ [][\A g \in Graphs : \A o \in Objs :
            (SameNameRegistered(g, o) /\ AddNode(g, o)) =>
                (result' = "RuntimeError_exists" /\ UNCHANGED graph)]_vars
    /\ [](\A g \in Graphs : \A i, j \in 1..Len(named_nodes[g]) :
            /\ name[named_nodes[g][i][2]] = named_nodes[g][i][1]
            /\ name[named_nodes[g][i][2]] = name[named_nodes[g][j][2]] => i = j)

\* add_node has just failed for an object that is not registered, while
\* another object of the same name is.
C4_Witness ==
    /\ pc = "idle"
    /\ cfd = NoCfd
    /\ result = "RuntimeError_exists"
    /\ \E o \in Objs \ Registered(1) : SameNameRegistered(1, o)

\* C5: create_edge(a, b, w) fails whenever a or b is not the object stored
\* in this graph under its name (also when only b is not), and then no
\* edge list and no registration has changed.
C5_InvalidReferenceRejected ==
    [][\A g \in Graphs :
          LET stale == {o \in Objs : ~IsStored(g, o)}
          IN  \A a, b \in Objs : (a \in stale \/ b \in stale) =>
                 \A w \in Weights :
                    CreateEdge(g, a, b, w) =>
                        (result' = "AssertionError" /\ UNCHANGED graph)]_vars

\* create_edge has just failed in a graph that holds a registered node,
\* beside an object that is not registered.
C5_Witness ==
    /\ pc = "idle"
    /\ cfd = NoCfd
    /\ result = "AssertionError"
    /\ Registered(1) # {}
    /\ Objs \ Registered(1) # {}

\* create_from_dict was the last call and has ended
CfdEnded == pc = "idle" /\ cfd.g # 0

Keys(m) == {m[i][1] : i \in 1..Len(m)}

\* Every target name of m is a key of m
Closed(m) == \A i \in 1..Len(m) : \A j \in 1..Len(m[i][2]) : m[i][2][j] \in Keys(m)

\* <<i, j>> is the first target occurrence of m, in iteration order, that
\* is not a key
FirstUndeclared(m, i, j) ==
    /\ i \in 1..Len(m)
    /\ j \in 1..Len(m[i][2])
    /\ m[i][2][j] \notin Keys(m)
    /\ \A k \in 1..(j - 1) : m[i][2][k] \in Keys(m)
    /\ \A h \in 1..(i - 1) : \A k \in 1..Len(m[h][2]) : m[h][2][k] \in Keys(m)

\* m cut off in front of its target occurrence <<i, j>>
CutBefore(m, i, j) ==
    [h \in 1..Len(m) |->
        <<m[h][1], IF h < i THEN m[h][2]
                   ELSE IF h = i THEN SubSeq(m[h][2], 1, j - 1)
                   ELSE <<>> >>]

\* Equality of two dicts: the same keys, with the same values
DictEq(d1, d2) ==
    /\ Len(d1) = Len(d2)
    /\ DictKeys(d1) = DictKeys(d2)
    /\ \A k \in DictKeys(d1) : DictGet(d1, k) = DictGet(d2, k)

AllEdgeListsEmpty == \A o \in Objs : Len(outgoing[o]) = 0 /\ Len(incoming[o]) = 0

\* C6, as stated (read for a call on an empty graph): when the
\* unknown-reference error is raised, every node has empty edge lists.
C6_NoEdgesAtError ==
    (CfdEnded /\ cfd.startEmpty /\ result = "RuntimeError_unspecified") => AllEdgeListsEmpty

\* C6, amended: called on an empty graph with a mapping that has an
\* undeclared target, create_from_dict raises the unknown-reference error
\* at the first such target in iteration order; all keys are registered by
\* then, and exactly the edges of the target occurrences in front of it
\* have been created (none only when it is the very first occurrence).
C6_ErrorAtFirstUndeclared ==
    (CfdEnded /\ cfd.startEmpty /\ ~Closed(cfd.m)) =>
        /\ result = "RuntimeError_unspecified"
        /\ FirstUndeclared(cfd.m, cfd.i, cfd.j)
        /\ DictEq(as_dict(cfd.g), CutBefore(cfd.m, cfd.i, cfd.j))
        /\ cfd.created = TotalEdges
        /\ (AllEdgeListsEmpty <=> (cfd.j = 1 /\ \A h \in 1..(cfd.i - 1) : Len(cfd.m[h][2]) = 0))

\* The error was raised on an empty graph after edges had been created.
C6_Witness ==
    /\ CfdEnded
    /\ cfd.startEmpty
    /\ result = "RuntimeError_unspecified"
    /\ cfd.created > 0

\* C7: for a mapping m whose targets are all keys, as_dict of the graph
\* that create_from_dict(m) builds from the empty graph equals m: the same
\* names, and for each the same target names in the same order.
C7_RoundTrip ==
    (CfdEnded /\ cfd.startEmpty /\ Closed(cfd.m)) =>
        /\ result = "ok"
        /\ DictEq(as_dict(cfd.g), cfd.m)

\* A mapping of three names, one of them with two different targets, has
\* been built and exported.
C7_Witness ==
    /\ CfdEnded
    /\ cfd.startEmpty
    /\ result = "ok"
    /\ Len(cfd.m) = 3
    /\ \E i \in 1..3 : Len(cfd.m[i][2]) = 2 /\ cfd.m[i][2][1] # cfd.m[i][2][2]

Sorted(list) == \A i, j \in 1..Len(list) : i < j => list[i].weight <= list[j].weight

\* new is old, or old with one edge put in behind all edges of weight at
\* most its own and in front of all heavier ones
InsertedBehindTies(old, new) ==
    \/ new = old
    \/ /\ Len(new) = Len(old) + 1
       /\ \E p \in 1..Len(new) :
             /\ old = SubSeq(new, 1, p - 1) \o SubSeq(new, p + 1, Len(new))
             /\ \A q \in 1..(p - 1) : new[q].weight <= new[p].weight
             /\ \A q \in (p + 1)..Len(new) : new[q].weight > new[p].weight

\* C8: every outgoing and incoming list is always in non-decreasing weight
\* order, and every step that changes one puts a single new edge behind
\* the edges of weight at most its own and in front of the heavier ones,
\* so edges of equal weight stay in insertion order.
C8_SortedStable ==
    /\ [](\A o \in Objs : Sorted(outgoing[o]) /\ Sorted(incoming[o]))
    /\ [][\A o \in Objs : /\ InsertedBehindTies(outgoing[o], outgoing'[o])
                          /\ InsertedBehindTies(incoming[o], incoming'[o])]_vars

\* A list of three edges: two of weight 0 to different nodes, then one of
\* weight 1.
C8_Witness ==
    \E o \in Objs :
        /\ Len(outgoing[o]) = 3
        /\ outgoing[o][1].weight = 0
        /\ outgoing[o][2].weight = 0
        /\ outgoing[o][3].weight = 1
        /\ outgoing[o][1].node # outgoing[o][2].node

\* Some target of m is a key that comes later in m than the key it is
\* listed under
HasForwardReference(m) ==
    \E i, h \in 1..Len(m) : i < h /\ \E j \in 1..Len(m[i][2]) : m[i][2][j] = m[h][1]

\* C9: create_from_dict has registered every key of the mapping before its
\* first create_edge call, so a mapping with a forward reference (all its
\* targets being keys) is built without error.
C9_NodesBeforeEdges ==
    /\ (cfd.g # 0 /\ cfd.created > 0) =>
          \A i \in 1..Len(cfd.m) : DictHas(named_nodes[cfd.g], cfd.m[i][1])
    /\ pc = "cfd_nodes" => cfd.created = 0
    /\ (CfdEnded /\ cfd.startEmpty /\ Closed(cfd.m) /\ HasForwardReference(cfd.m)) =>
          result = "ok"

\* A mapping with a forward reference has been built.
C9_Witness ==
    /\ CfdEnded
    /\ result = "ok"
    /\ HasForwardReference(cfd.m)
    /\ cfd.created > 0

\* The edges of o all point to nodes stored in g
EdgesWithin(g, o) ==
    /\ \A i \in 1..Len(outgoing[o]) : IsStored(g, outgoing[o][i].node)
    /\ \A i \in 1..Len(incoming[o]) : IsStored(g, incoming[o][i].node)

\* o is registered in g and in no other graph
OnlyIn(g, o) == o \in Registered(g) /\ \A h \in Graphs \ {g} : o \notin Registered(h)

\* Every target name of the dict d is one of its keys
TargetsAreKeys(d) ==
    \A i \in 1..Len(d) : \A j \in 1..Len(d[i][2]) : d[i][2][j] \in DictKeys(d)

\* C10, as stated: in every graph, every edge of a registered node points
\* to a node registered in that graph, so the targets of as_dict are keys.
C10_EdgesStayInGraph ==
    \A g \in Graphs :
        /\ \A o \in Registered(g) : EdgesWithin(g, o)
        /\ TargetsAreKeys(as_dict(g))

\* C10, amended: every edge of a node registered in g and in no other
\* graph points to a node registered in g (as that object, under its
\* name); when none of g's nodes is registered elsewhere, the targets of
\* g.as_dict() are keys of it.
C10_EdgesOfUnsharedNodes ==
    \A g \in Graphs :
        /\ \A o \in Registered(g) : OnlyIn(g, o) => EdgesWithin(g, o)
        /\ (\A o \in Registered(g) : OnlyIn(g, o)) => TargetsAreKeys(as_dict(g))

\* One node is registered in both graphs, and a node registered in one
\* graph only has an edge.
C10_Witness ==
    /\ \E o \in Objs : \A g \in Graphs : o \in Registered(g)
    /\ \E g \in Graphs : \E o \in Registered(g) : OnlyIn(g, o) /\ Len(outgoing[o]) > 0

====
